---- MODULE Spec2Model ----
(***************************************************************************)
(* SimpleConsole, the front end of bracket-bevy's simple console           *)
(* (bracket-bevy/src/consoles/simple_console/front_end.rs): a width x      *)
(* height grid of TerminalGlyph cells, the drawing primitives that write   *)
(* it, and the per-frame hand-over to an optional back end.                *)
(*                                                                         *)
(* usize arithmetic.  Every coordinate is a usize.  A subtraction that     *)
(* goes below zero panics when the build checks overflow (debug) and wraps *)
(* modulo 2^64 otherwise (release).  A wrapped value 2^64 - k is written   *)
(* here as the integer -k: the additions and multiplications of `at` are   *)
(* ring operations modulo 2^64, so the representative stays exact, and a   *)
(* Vec index is in range exactly when its representative is in 0..len-1.   *)
(***************************************************************************)
EXTENDS Integers, Sequences, FiniteSets

\* ------------------------------------------------------------ bounds
MaxWidth == 3
MaxHeight == 3
MaxText == 2
MaxCoord == 1
MaxFrameWidth == 2
MaxFrameHeight == 2
MaxOps == 5

\* ------------------------------------------------------------ state
VARIABLES
    width,            \* SimpleConsole.width
    height,           \* SimpleConsole.height
    terminal,         \* SimpleConsole.terminal: index 0..width*height-1 -> cell
    back_end,         \* SimpleConsole.back_end: None or the boxed back end
    overflow_checks,  \* the build: TRUE when usize overflow panics
    panicked,         \* a primitive has panicked; the caller's frame is gone
    lastOp,           \* the call that produced this state, with its arguments
    calls,            \* back-end methods that call invoked, in order
    frame,            \* what the last update_mesh call observed
    ops               \* calls made on the console since new

vars == <<width, height, terminal, back_end, overflow_checks, panicked,
          lastOp, calls, frame, ops>>

\* ------------------------------------------------------------ colours
\* bevy's Color constants used as inputs, and Color::as_rgba_f32.
Colors == {"WHITE", "BLACK", "RED"}

as_rgba_f32(c) ==
    CASE c = "WHITE" -> <<1, 1, 1, 1>>
      [] c = "BLACK" -> <<0, 0, 0, 1>>
      [] c = "RED"   -> <<1, 0, 0, 1>>

\* ------------------------------------------------------------ text
\* A text is a sequence of chars.  "eacute" is U+00E9, two bytes in UTF-8.
Chars == {"A", "eacute"}

Utf8Len(c) == IF c = "A" THEN 1 ELSE 2

\* str::len(): the byte length of the text.
RECURSIVE StrLen(_)
StrLen(text) == IF text = <<>> THEN 0 ELSE Utf8Len(Head(text)) + StrLen(Tail(text))

\* to_cp437 on the chars the model uses (code page 437).
to_cp437(c) ==
    CASE c = "A"      -> 65
      [] c = "eacute" -> 130
      [] c = "box_dr" -> 218   \* U+250C, down and right
      [] c = "box_dl" -> 191   \* U+2510, down and left
      [] c = "box_ur" -> 192   \* U+2514, up and right
      [] c = "box_ul" -> 217   \* U+2518, up and left
      [] c = "box_h"  -> 196   \* U+2500, horizontal
      [] c = "box_v"  -> 179   \* U+2502, vertical
      [] OTHER        -> 0

\* string_to_cp437: one glyph code per char.
string_to_cp437(text) == [i \in 1..Len(text) |-> to_cp437(text[i])]

\* ------------------------------------------------------------ cells
TerminalGlyph(glyph, fg, bg) ==
    [glyph |-> glyph, foreground |-> as_rgba_f32(fg), background |-> as_rgba_f32(bg)]

\* TerminalGlyph::default()
DefaultGlyph == TerminalGlyph(32, "WHITE", "BLACK")

\* ------------------------------------------------------------ addressing
\* Mutant of at: rows stored bottom-up, without the vertical flip.
atNoFlip(x, y) == (y * width) + x

\* SimpleConsole::at
at(x, y) == ((height - 1 - y) * width) + x

\* `height - 1 - y` underflows; a panic in a build that checks overflow.
AtOverflows(y) == overflow_checks /\ y > height - 1

\* terminal[at(x, y)] = ... panics: arithmetic overflow, or index out of range.
StorePanics(term, x, y) == AtOverflows(y) \/ at(x, y) \notin DOMAIN term

\* A run of `self.terminal[self.at(x, y)] = cell` stores, stopped by the first panic.
RECURSIVE ApplyWrites(_, _)
ApplyWrites(term, ws) ==
    IF ws = <<>> THEN [terminal |-> term, panicked |-> FALSE]
    ELSE LET w == Head(ws) IN
         IF StorePanics(term, w.x, w.y) THEN [terminal |-> term, panicked |-> TRUE]
         ELSE ApplyWrites([term EXCEPT ![at(w.x, w.y)] = w.cell], Tail(ws))

\* ------------------------------------------------------------ drawing primitives
\* Each primitive is the sequence of cell stores it makes, in program order.
Store(x, y, cell) == [x |-> x, y |-> y, cell |-> cell]

\* Mutant of cls: every cell reset to the default cell, colours included.
ClsResultDefault(term) == [i \in DOMAIN term |-> TerminalGlyph(32, "WHITE", "BLACK")]

\* SimpleConsole::cls: only the glyph of every cell is assigned.
ClsResult(term) == [i \in DOMAIN term |-> [term[i] EXCEPT !.glyph = 32]]

\* Mutant of set: foreground and background stored in each other's field.
SetWritesSwapped(x, y, fg, bg, glyph) == <<Store(x, y, TerminalGlyph(glyph, bg, fg))>>

\* SimpleConsole::set
SetWrites(x, y, fg, bg, glyph) == <<Store(x, y, TerminalGlyph(glyph, fg, bg))>>

\* The loop shared by print and print_color: one store per glyph, x += 1 after each.
GlyphRun(x, y, glyphs, fg, bg) ==
    [i \in 1..Len(glyphs) |-> Store(x + (i - 1), y, TerminalGlyph(glyphs[i], fg, bg))]

\* Mutant of print: the column is not advanced after a glyph.
PrintWritesNoAdvance(x, y, text) ==
    [i \in 1..Len(text) |-> Store(x, y, TerminalGlyph(to_cp437(text[i]), "WHITE", "BLACK"))]

\* SimpleConsole::print
PrintWrites(x, y, text) == GlyphRun(x, y, string_to_cp437(text), "WHITE", "BLACK")

\* SimpleConsole::print_color
PrintColorWrites(x, y, text, fg, bg) == GlyphRun(x, y, string_to_cp437(text), fg, bg)

\* Mutant of print_centered: the text measured in chars, not bytes.
CenterHalfChars(text) == Len(text) \div 2

\* SimpleConsole::print_centered: the two halves of its column expression.
CenterHalfWidth == width \div 2
CenterHalfLen(text) == StrLen(text) \div 2

\* The subtraction underflows: a panic before print is reached in a checking build.
CenteredOverflows(text) == overflow_checks /\ CenterHalfLen(text) > CenterHalfWidth

\* The column handed to print (negative: a wrapped usize).
CenteredX(text) == CenterHalfWidth - CenterHalfLen(text)

PrintCenteredResult(term, y, text) ==
    IF CenteredOverflows(text) THEN [terminal |-> term, panicked |-> TRUE]
    ELSE ApplyWrites(term, PrintWrites(CenteredX(text), y, text))

\* SimpleConsole::draw_box, first loop: for y in sy..sy+h, for x in sx..sx+w.
BoxFill(sx, sy, w, h) ==
    [k \in 1..(w * h) |->
        Store(sx + ((k - 1) % w), sy + ((k - 1) \div w), TerminalGlyph(32, "WHITE", "BLACK"))]

\* Mutant of draw_box: the far corners one cell short (an exclusive extent).
BoxCornersExclusive(sx, sy, w, h, fg, bg) ==
    << Store(sx,         sy,         TerminalGlyph(to_cp437("box_dr"), fg, bg)),
       Store(sx + w - 1, sy,         TerminalGlyph(to_cp437("box_dl"), fg, bg)),
       Store(sx,         sy + h - 1, TerminalGlyph(to_cp437("box_ur"), fg, bg)),
       Store(sx + w - 1, sy + h - 1, TerminalGlyph(to_cp437("box_ul"), fg, bg)) >>

\* The four corner stores.
BoxCorners(sx, sy, w, h, fg, bg) ==
    << Store(sx,     sy,     TerminalGlyph(to_cp437("box_dr"), fg, bg)),
       Store(sx + w, sy,     TerminalGlyph(to_cp437("box_dl"), fg, bg)),
       Store(sx,     sy + h, TerminalGlyph(to_cp437("box_ur"), fg, bg)),
       Store(sx + w, sy + h, TerminalGlyph(to_cp437("box_ul"), fg, bg)) >>

\* for x in sx+1..sx+w: the top store, then the bottom store.
BoxHorizontals(sx, sy, w, h, fg, bg) ==
    [k \in 1..(2 * (w - 1)) |->
        Store(sx + 1 + ((k - 1) \div 2),
              IF k % 2 = 1 THEN sy ELSE sy + h,
              TerminalGlyph(to_cp437("box_h"), fg, bg))]

\* for y in sy+1..sy+h: the left store, then the right store.
BoxVerticals(sx, sy, w, h, fg, bg) ==
    [k \in 1..(2 * (h - 1)) |->
        Store(IF k % 2 = 1 THEN sx ELSE sx + w,
              sy + 1 + ((k - 1) \div 2),
              TerminalGlyph(to_cp437("box_v"), fg, bg))]

DrawBoxWrites(sx, sy, w, h, fg, bg) ==
    BoxFill(sx, sy, w, h) \o BoxCorners(sx, sy, w, h, fg, bg)
        \o BoxHorizontals(sx, sy, w, h, fg, bg) \o BoxVerticals(sx, sy, w, h, fg, bg)

\* ------------------------------------------------------------ back end
\* The SimpleConsoleBackend capability: new, update_dirty, update_mesh,
\* clear_dirty, spawn, in its two variants.
Features == {"WithoutBackground", "NoDirtyOptimization"}

None == [variant |-> "None"]

NoDirty == [all |-> FALSE, cells |-> {}]

\* The quads one cell contributes to the mesh.
Quads(variant, cell) ==
    IF variant = "WithBackground"
    THEN << [quad |-> "background", color |-> cell.background],
            [quad |-> "glyph", glyph |-> cell.glyph, color |-> cell.foreground] >>
    ELSE << [quad |-> "glyph", glyph |-> cell.glyph, color |-> cell.foreground] >>

FullBuild(variant, term) == [i \in DOMAIN term |-> Quads(variant, term[i])]

\* new(): buffers allocated and fully built from the grid; no snapshot yet,
\* nothing dirty.
BackendNew(variant, term, no_dirty_opt) ==
    [variant |-> variant, no_dirty_opt |-> no_dirty_opt,
     has_snapshot |-> FALSE, snapshot |-> <<>>,
     dirty |-> NoDirty, geometry |-> FullBuild(variant, term)]

\* update_dirty(grid): all-dirty when the optimization is off or there is no
\* snapshot yet; otherwise every index whose cell differs from the snapshot is
\* added to the dirty set.  The snapshot then becomes the grid.
BackendUpdateDirty(be, term) ==
    [be EXCEPT
       !.dirty = IF be.no_dirty_opt \/ ~be.has_snapshot
                 THEN [all |-> TRUE, cells |-> be.dirty.cells]
                 ELSE [all |-> be.dirty.all,
                       cells |-> be.dirty.cells
                                   \cup {i \in DOMAIN term : term[i] # be.snapshot[i]}],
       !.has_snapshot = TRUE,
       !.snapshot = term]

\* update_mesh(grid): full rebuild on all-dirty, else the dirty cells patched in place.
BackendUpdateMesh(be, term) ==
    [be EXCEPT
       !.geometry = IF be.dirty.all THEN FullBuild(be.variant, term)
                    ELSE [i \in DOMAIN be.geometry |->
                            IF i \in be.dirty.cells THEN Quads(be.variant, term[i])
                            ELSE be.geometry[i]]]

\* clear_dirty()
BackendClearDirty(be) == [be EXCEPT !.dirty = NoDirty]

\* ------------------------------------------------------------ front end
\* SimpleConsole::initialize: the variant test and the construction.
InitializedBackend(term, features) ==
    IF "WithoutBackground" \notin features
    THEN BackendNew("WithBackground", term, "NoDirtyOptimization" \in features)
    ELSE BackendNew("NoBackground", term, "NoDirtyOptimization" \in features)

\* Mutant of update_mesh: the third block, clear_dirty, is missing.
FrameStepsNoClear(be, term) ==
    IF be = None
    THEN [back_end |-> be, calls |-> <<>>, seen |-> NoDirty]
    ELSE LET d == BackendUpdateDirty(be, term)
             m == BackendUpdateMesh(d, term)
         IN [back_end |-> m, calls |-> <<"update_dirty", "update_mesh">>, seen |-> d.dirty]

\* Mutant of update_mesh: the mesh is updated before the dirty set is recomputed.
FrameStepsMeshFirst(be, term) ==
    IF be = None
    THEN [back_end |-> be, calls |-> <<>>, seen |-> NoDirty]
    ELSE LET m == BackendUpdateMesh(be, term)
             d == BackendUpdateDirty(m, term)
             c == BackendClearDirty(d)
         IN [back_end |-> c,
             calls |-> <<"update_mesh", "update_dirty", "clear_dirty">>,
             seen |-> be.dirty]

\* SimpleConsole::update_mesh: three `if let Some(back_end)` blocks in a row.
\* Yields the back end afterwards, the methods invoked, and the dirty set the
\* back end's update_mesh consumed.
FrameSteps(be, term) ==
    IF be = None
    THEN [back_end |-> be, calls |-> <<>>, seen |-> NoDirty]
    ELSE LET d == BackendUpdateDirty(be, term)
             m == BackendUpdateMesh(d, term)
             c == BackendClearDirty(m)
         IN [back_end |-> c,
             calls |-> <<"update_dirty", "update_mesh", "clear_dirty">>,
             seen |-> d.dirty]

\* Mutant of spawn: the back end is used without the `if let Some` test.
SpawnCallsUnchecked(be) == <<"spawn">>

\* SimpleConsole::spawn
SpawnCalls(be) == IF be = None THEN <<>> ELSE <<"spawn">>

NoFrame == [idle |-> 0, seen |-> NoDirty, before |-> <<>>]

\* A drawing primitive ran: the grid it left, and whether it panicked.
Draw(op, res) ==
    /\ ~panicked
    /\ ops < MaxOps
    /\ ops' = ops + 1
    /\ terminal' = res.terminal
    /\ panicked' = res.panicked
    /\ lastOp' = op
    /\ calls' = <<>>
    /\ frame' = NoFrame
    /\ UNCHANGED <<width, height, back_end, overflow_checks>>

\* SimpleConsole::initialize.  The fonts slice is taken to hold font_index: the
\* font metadata only parameterises texture coordinates.
initialize(features) ==
    /\ ~panicked
    /\ ops < MaxOps
    /\ ops' = ops + 1
    /\ back_end' = InitializedBackend(terminal, features)
    /\ lastOp' = [op |-> "initialize", features |-> features]
    /\ calls' = <<"new">>
    /\ frame' = NoFrame
    /\ UNCHANGED <<width, height, terminal, overflow_checks, panicked>>

spawn ==
    /\ ~panicked
    /\ ops < MaxOps
    /\ ops' = ops + 1
    /\ lastOp' = [op |-> "spawn"]
    /\ calls' = SpawnCalls(back_end)
    /\ frame' = NoFrame
    /\ UNCHANGED <<width, height, terminal, back_end, overflow_checks, panicked>>

cls == Draw([op |-> "cls"], [terminal |-> ClsResult(terminal), panicked |-> FALSE])

set(x, y, fg, bg, glyph) ==
    Draw([op |-> "set", x |-> x, y |-> y, fg |-> fg, bg |-> bg, glyph |-> glyph],
         ApplyWrites(terminal, SetWrites(x, y, fg, bg, glyph)))

print(x, y, text) ==
    Draw([op |-> "print", x |-> x, y |-> y, text |-> text],
         ApplyWrites(terminal, PrintWrites(x, y, text)))

print_color(x, y, text, fg, bg) ==
    Draw([op |-> "print_color", x |-> x, y |-> y, text |-> text, fg |-> fg, bg |-> bg],
         ApplyWrites(terminal, PrintColorWrites(x, y, text, fg, bg)))

print_centered(y, text) ==
    Draw([op |-> "print_centered", y |-> y, text |-> text],
         PrintCenteredResult(terminal, y, text))

draw_box(sx, sy, w, h, fg, bg) ==
    Draw([op |-> "draw_box", sx |-> sx, sy |-> sy, w |-> w, h |-> h, fg |-> fg, bg |-> bg],
         ApplyWrites(terminal, DrawBoxWrites(sx, sy, w, h, fg, bg)))

update_mesh ==
    LET r == FrameSteps(back_end, terminal) IN
    /\ ~panicked
    /\ ops < MaxOps
    /\ ops' = ops + 1
    /\ back_end' = r.back_end
    /\ calls' = r.calls
    /\ lastOp' = [op |-> "update_mesh"]
    /\ frame' = [idle |-> IF frame.idle < 2 THEN frame.idle + 1 ELSE 2,
                 seen |-> r.seen,
                 before |-> IF back_end = None THEN <<>> ELSE back_end.geometry]
    /\ UNCHANGED <<width, height, terminal, overflow_checks, panicked>>

\* ------------------------------------------------------------ the console
\* SimpleConsole::new
new(w, h) ==
    /\ width = w
    /\ height = h
    /\ terminal = [i \in 0..(w * h - 1) |-> DefaultGlyph]
    /\ back_end = None
    /\ panicked = FALSE
    /\ lastOp = [op |-> "new"]
    /\ calls = <<>>
    /\ frame = NoFrame

Texts(n) == UNION {[1..k -> Chars] : k \in 0..n}

Init ==
    /\ \E w \in 1..MaxFrameWidth, h \in 1..MaxFrameHeight : new(w, h)
    /\ overflow_checks \in BOOLEAN
    /\ ops = 0

\* The console driven through its whole interface, each primitive with a
\* narrow choice of arguments.
Next ==
    \/ \E features \in SUBSET Features : initialize(features)
    \/ spawn
    \/ update_mesh
    \/ cls
    \/ \E x \in 0..MaxCoord : set(x, 0, "RED", "BLACK", 65)
    \/ print(0, 0, <<"A">>)
    \/ print_color(0, 0, <<"A", "eacute">>, "BLACK", "RED")
    \/ print_centered(0, <<"A">>)
    \/ draw_box(0, 0, 1, 1, "RED", "BLACK")

Spec == Init /\ [][Next]_vars

\* ------------------------------------------------------------ drawing contracts
\* One primitive called with arguments from wide sets (coordinates one past the
\* grid included), on the fresh grid or on a grid with one cell painted by set.
Foregrounds == {"RED", "WHITE"}
Backgrounds == {"BLACK", "RED"}
Glyphs == {65, 66}

InitDraw ==
    /\ \E w \in 1..MaxWidth, h \in 1..MaxHeight : new(w, h)
    /\ overflow_checks \in BOOLEAN
    /\ ops = 0

\* The one call that may come before the primitive under test.
Paint ==
    /\ ops = 0
    /\ \E x \in 0..(width - 1), y \in 0..(height - 1) : set(x, y, "BLACK", "RED", 66)

Painted ==
    /\ ops = 1
    /\ lastOp.op = "set"
    /\ lastOp.fg = "BLACK"

\* The primitive under test has not been called yet.
Callable == ops = 0 \/ Painted

NextDraw ==
    \/ Paint
    \/ Callable /\ cls
    \/ Callable /\ \E x \in 0..width, y \in 0..height, fg \in Foregrounds,
                      bg \in Backgrounds, glyph \in Glyphs : set(x, y, fg, bg, glyph)
    \/ Callable /\ \E x \in 0..width, y \in 0..height, text \in Texts(MaxText) :
                      print(x, y, text)
    \/ Callable /\ \E x \in 0..width, y \in 0..height, text \in Texts(MaxText),
                      fg \in Foregrounds : print_color(x, y, text, fg, "BLACK")
    \/ Callable /\ \E y \in 0..height, text \in Texts(MaxText) : print_centered(y, text)
    \/ Callable /\ \E sx \in 0..(MaxWidth - 1), sy \in 0..(MaxHeight - 1),
                      w \in 0..(MaxWidth - 1), h \in 0..(MaxHeight - 1),
                      fg \in Foregrounds : draw_box(sx, sy, w, h, fg, "RED")

SpecDraw == InitDraw /\ [][NextDraw]_vars

\* ------------------------------------------------------------ properties
InBounds(x, y) == x \in 0..(width - 1) /\ y \in 0..(height - 1)

White == <<1, 1, 1, 1>>
Black == <<0, 0, 0, 1>>

\* C1: after set(x,y,fg,bg,g) with (x,y) inside the grid, the cell at (x,y)
\* holds exactly glyph g, foreground fg and background bg, and every other
\* cell is as it was before the call.
C1_SetWritesOneCell ==
    [][ (lastOp'.op = "set" /\ ops' = ops + 1 /\ InBounds(lastOp'.x, lastOp'.y))
        => /\ ~panicked'
           /\ DOMAIN terminal' = DOMAIN terminal
           /\ \A i \in DOMAIN terminal :
                terminal'[i] =
                    IF i = at(lastOp'.x, lastOp'.y)
                    THEN [glyph |-> lastOp'.glyph,
                          foreground |-> as_rgba_f32(lastOp'.fg),
                          background |-> as_rgba_f32(lastOp'.bg)]
                    ELSE terminal[i] ]_vars

\* A set inside a grid that already holds a painted cell elsewhere has acted.
C1_Witness ==
    /\ ops = 2
    /\ lastOp.op = "set"
    /\ InBounds(lastOp.x, lastOp.y)
    /\ lastOp.fg = "RED" /\ lastOp.bg = "RED" /\ lastOp.glyph = 65
    /\ terminal[at(lastOp.x, lastOp.y)] = TerminalGlyph(65, "RED", "RED")
    /\ \E i \in DOMAIN terminal : i # at(lastOp.x, lastOp.y) /\ terminal[i].glyph = 66

\* C2: cls() leaves every cell with glyph 32 and with the foreground and
\* background the cell had immediately before the call.
C2_ClsKeepsColors ==
    [][ (lastOp'.op = "cls" /\ ops' = ops + 1)
        => /\ DOMAIN terminal' = DOMAIN terminal
           /\ \A i \in DOMAIN terminal :
                /\ terminal'[i].glyph = 32
                /\ terminal'[i].foreground = terminal[i].foreground
                /\ terminal'[i].background = terminal[i].background ]_vars

\* cls has acted on a grid that drawing had given a non-default colour.
C2_Witness ==
    /\ lastOp.op = "cls"
    /\ \A i \in DOMAIN terminal : terminal[i].glyph = 32
    /\ \E i \in DOMAIN terminal : terminal[i].foreground = as_rgba_f32("RED")
    /\ \E i \in DOMAIN terminal : terminal[i].background = as_rgba_f32("RED")

\* C3: at(x,y) is injective over the grid, lies in 0..width*height-1, and
\* at(0,height-1) = 0, at(width-1,0) = width*height-1.
C3_AtInjective ==
    /\ \A x \in 0..(width - 1), y \in 0..(height - 1) :
          at(x, y) \in 0..(width * height - 1)
    /\ \A x1 \in 0..(width - 1), y1 \in 0..(height - 1),
          x2 \in 0..(width - 1), y2 \in 0..(height - 1) :
          at(x1, y1) = at(x2, y2) => (x1 = x2 /\ y1 = y2)
    /\ at(0, height - 1) = 0
    /\ at(width - 1, 0) = width * height - 1

\* A store through at(width-1, 0) landed in the last cell of a 3 x 2 grid.
C3_Witness ==
    /\ width = 3 /\ height = 2
    /\ lastOp.op = "set"
    /\ lastOp.x = width - 1 /\ lastOp.y = 0 /\ lastOp.glyph = 65
    /\ ~panicked
    /\ terminal[width * height - 1].glyph = 65

\* C4: print(x,y,text) with x + n <= width and y < height writes the i-th glyph
\* code at (x+i,y), white on black, and leaves every other cell unchanged.
C4_PrintWritesRun ==
    [][ (/\ lastOp'.op = "print"
         /\ ops' = ops + 1
         /\ lastOp'.x + Len(lastOp'.text) <= width
         /\ lastOp'.y < height)
        => /\ ~panicked'
           /\ DOMAIN terminal' = DOMAIN terminal
           /\ \A i \in DOMAIN terminal :
                LET hit == {k \in 0..(Len(lastOp'.text) - 1) :
                               i = at(lastOp'.x + k, lastOp'.y)}
                IN terminal'[i] =
                     IF hit # {}
                     THEN [glyph |-> to_cp437(lastOp'.text[(CHOOSE k \in hit : TRUE) + 1]),
                           foreground |-> White, background |-> Black]
                     ELSE terminal[i] ]_vars

\* A two-glyph print that fits its row has acted beside a painted cell.
C4_Witness ==
    /\ ops = 2
    /\ lastOp.op = "print"
    /\ lastOp.text = <<"A", "eacute">>
    /\ lastOp.x = 1 /\ width = 3 /\ lastOp.y < height
    /\ terminal[at(1, lastOp.y)].glyph = 65
    /\ terminal[at(2, lastOp.y)].glyph = 130
    /\ terminal[at(0, lastOp.y)].glyph = 66

\* The cell draw_box is to leave at (x,y), given the cell that was there.
BoxExpected(sx, sy, w, h, fg, bg, x, y, old) ==
    LET edge(g) == [glyph |-> g, foreground |-> as_rgba_f32(fg),
                    background |-> as_rgba_f32(bg)]
    IN IF x < sx \/ x > sx + w \/ y < sy \/ y > sy + h THEN old
       ELSE IF x = sx /\ y = sy THEN edge(218)
       ELSE IF x = sx + w /\ y = sy THEN edge(191)
       ELSE IF x = sx /\ y = sy + h THEN edge(192)
       ELSE IF x = sx + w /\ y = sy + h THEN edge(217)
       ELSE IF y = sy \/ y = sy + h THEN edge(196)
       ELSE IF x = sx \/ x = sx + w THEN edge(179)
       ELSE [glyph |-> 32, foreground |-> White, background |-> Black]

\* C5: an in-bounds draw_box with w >= 1 and h >= 1 puts the four corners, the
\* horizontal and vertical line glyphs in fg/bg on the border of the
\* (w+1) x (h+1) box, blank white-on-black cells strictly inside, and leaves
\* the cells outside the box unchanged.
C5_DrawBoxShape ==
    [][ (/\ lastOp'.op = "draw_box"
         /\ ops' = ops + 1
         /\ lastOp'.w >= 1 /\ lastOp'.h >= 1
         /\ lastOp'.sx + lastOp'.w < width
         /\ lastOp'.sy + lastOp'.h < height)
        => /\ ~panicked'
           /\ DOMAIN terminal' = DOMAIN terminal
           /\ \A x \in 0..(width - 1), y \in 0..(height - 1) :
                terminal'[at(x, y)] =
                    BoxExpected(lastOp'.sx, lastOp'.sy, lastOp'.w, lastOp'.h,
                                lastOp'.fg, lastOp'.bg, x, y, terminal[at(x, y)]) ]_vars

\* A 3 x 3 box was drawn on a 3 x 3 grid: corners, edges, and a blank interior cell.
C5_Witness ==
    /\ width = 3 /\ height = 3
    /\ ops = 2
    /\ lastOp.op = "draw_box"
    /\ lastOp.sx = 0 /\ lastOp.sy = 0 /\ lastOp.w = 2 /\ lastOp.h = 2
    /\ ~panicked
    /\ terminal[at(1, 1)] = [glyph |-> 32, foreground |-> White, background |-> Black]
    /\ terminal[at(0, 0)].glyph = 218
    /\ terminal[at(2, 2)].glyph = 217
    /\ terminal[at(1, 0)].glyph = 196
    /\ terminal[at(0, 1)].glyph = 179

C6_SecondFrameClean ==
    (back_end # None /\ frame.idle >= 2)
        => (frame.seen = NoDirty /\ back_end.geometry = frame.before)

\* C6 amended: the second call leaves the geometry unchanged; its dirty set is
\* empty when NoDirtyOptimization is off, and all-dirty when it is on.
C6_SecondFrameCleanUnlessNoDirtyOpt ==
    (back_end # None /\ frame.idle >= 2)
        => /\ back_end.geometry = frame.before
           /\ ~back_end.no_dirty_opt => frame.seen = NoDirty
           /\ back_end.no_dirty_opt => frame.seen.all

\* Two update_mesh calls in a row on an initialized console (dirty tracking
\* on) whose grid had been drawn on.
C6_Witness ==
    /\ back_end # None
    /\ ~back_end.no_dirty_opt
    /\ frame.idle >= 2
    /\ frame.seen = NoDirty
    /\ \E i \in DOMAIN terminal : terminal[i].glyph = 65
    /\ back_end.geometry = FullBuild(back_end.variant, terminal)

\* C7: every update_mesh call on an initialized console invokes update_dirty,
\* update_mesh and clear_dirty once each, in that order; the geometry it leaves
\* was updated from a dirty set recomputed in the same call, and the dirty set
\* is empty whenever a call on the console has returned.
C7_FrameOrder ==
    /\ (lastOp.op = "update_mesh" /\ back_end # None)
          => calls = <<"update_dirty", "update_mesh", "clear_dirty">>
    /\ back_end # None => back_end.dirty = NoDirty

\* An update_mesh call on an initialized console patched exactly one dirty cell.
C7_Witness ==
    /\ lastOp.op = "update_mesh"
    /\ back_end # None
    /\ calls = <<"update_dirty", "update_mesh", "clear_dirty">>
    /\ ~frame.seen.all
    /\ Cardinality(frame.seen.cells) = 1
    /\ back_end.geometry # frame.before
    /\ back_end.dirty = NoDirty

\* C8 as stated: once a back end is held, its variant never changes, whatever
\* is called on the console afterwards.
C8_VariantNeverChanges ==
    [][ back_end # None => back_end'.variant = back_end.variant ]_vars

Drawing == {"cls", "set", "print", "print_color", "print_centered", "draw_box"}

\* C10: while the back end is absent, a drawing primitive leaves it absent and
\* invokes nothing on it, update_mesh and spawn invoke no back-end method and
\* leave the grid and the back-end slot unchanged, and only initialize fills
\* the slot.
C10_UninitializedIsInert ==
    [][ (back_end = None /\ ops' = ops + 1)
        => /\ lastOp'.op \in Drawing
                => (back_end' = None /\ calls' = <<>>)
           /\ lastOp'.op \in {"update_mesh", "spawn"}
                => (calls' = <<>> /\ terminal' = terminal /\ back_end' = None)
           /\ back_end' # None => lastOp'.op = "initialize" ]_vars

\* update_mesh returned on a console that was drawn on and never initialized.
C10_Witness ==
    /\ back_end = None
    /\ lastOp.op = "update_mesh"
    /\ ops >= 3
    /\ calls = <<>>
    /\ \E i \in DOMAIN terminal : terminal[i].glyph = 192
    /\ \E i \in DOMAIN terminal : terminal[i].background = as_rgba_f32("RED")

====
